---------------------------- MODULE Spec2Model ----------------------------
(***************************************************************************)
(* Neural style transfer engine of main.py: assembly of the truncated      *)
(* feature extractor with loss taps (get_style_model_and_losses) and the   *)
(* pixel-space optimization loop (run_style_transfer).                     *)
(*                                                                         *)
(* Abstractions.                                                           *)
(*  - An image is represented by one pixel value: every operation the      *)
(*    source applies to an image (clone, clamp_, the optimizer's update)   *)
(*    is element-wise.  Values 0 and 1 are the ends of the valid range     *)
(*    [0,1]; values below 0 and above 1 are out of range.  NaN is not      *)
(*    modelled.                                                            *)
(*  - The value a layer computes is uninterpreted: a feature map is the    *)
(*    image it was computed from together with the sequence of layer       *)
(*    functions applied to it.  Two layers compute the same function iff   *)
(*    they have the same class and the same parameters.                    *)
(*  - A loss is 0 when the compared feature maps are equal and 1 (some     *)
(*    non-zero value) otherwise.                                           *)
(*  - torch.nn / torch.autograd / torch.optim are library code: module     *)
(*    registration (add_module), graph retention (backward) and the        *)
(*    optimizer's step contract are modelled from their documented         *)
(*    behaviour at the call sites in main.py.                              *)
(***************************************************************************)
EXTENDS Integers, Sequences, FiniteSets, TLC

VARIABLES
    cnn,             \* the feature extractor: sequence of layers
    content_layers,  \* configured content-tap names
    style_layers,    \* configured style-tap names
    content_img,     \* content image
    style_img,       \* style image
    num_steps,       \* step budget of run_style_transfer
    max_eval,        \* most closure calls the optimizer makes in one step
    model,           \* nn.Sequential being assembled: sequence of [name, mod]
    i,               \* conv counter of the walk
    pos,             \* index of the next layer of cnn to walk
    taps,            \* every ContentLoss / StyleLoss object created, by id
    tap_at,          \* history: per tap id, the index of the cnn layer it was created after
    content_losses,  \* list of tap ids
    style_losses,    \* list of tap ids
    input_img,       \* the Working Image
    input_rg,        \* input_img.requires_grad
    input_grad,      \* number of backward passes accumulated in input_img.grad
    wgrad,           \* per cnn layer: backward passes accumulated in weight.grad
    run,             \* run[0]
    evals,           \* closure calls made so far by the current optimizer.step
    pc,              \* control position
    err,             \* the exception that ended the run ("" if none)
    nfwd,            \* history: forward evaluations made during assembly
    fed,             \* history: <<v>> = pixel value fed to the model by the last closure
    dirty,           \* history: the optimizer updated input_img since the last clamp
    clamp_acted,     \* history: the last clamp_ changed the pixel value
    headers,         \* history: values of run[0] whose "run [n]:" line was printed
    reports          \* history: values of run[0] whose loss line was printed

vars == <<cnn, content_layers, style_layers, content_img, style_img, num_steps,
          max_eval, model, i, pos, taps, content_losses, style_losses, input_img,
          input_rg, input_grad, wgrad, run, evals, pc, err, nfwd, fed, dirty,
          headers, reports, tap_at, clamp_acted>>

inputs == <<cnn, content_layers, style_layers, content_img, style_img, num_steps, max_eval>>

----------------------------------------------------------------------------
(* Bounds *)

MaxLayers == 3       \* longest feature extractor
Overshoot == 1       \* how far outside [0,1] an optimizer update can put a pixel
MaxEval == 2         \* largest per-step closure budget of the optimizer
MaxSmallBudget == 2  \* step budgets 0..MaxSmallBudget are tried besides the large ones

(* Program constants *)

ReportEvery == 50    \* run[0] % 50 == 0

PixelValues == (0 - Overshoot)..(1 + Overshoot)
ValidPixels == 0..1

----------------------------------------------------------------------------
(* Layers of the feature extractor.  param identifies the layer's          *)
(* parameters (weights, kernel size, running statistics); for ReLU it is   *)
(* the inplace flag (1 = inplace).                                         *)

Layers ==
    {[cls |-> "Conv2d", param |-> 1], [cls |-> "ReLU", param |-> 1],
     [cls |-> "MaxPool2d", param |-> 1], [cls |-> "MaxPool2d", param |-> 2],
     [cls |-> "BatchNorm2d", param |-> 1], [cls |-> "Dropout", param |-> 1]}

LayerSeqs(n) == UNION {[1..k -> Layers] : k \in 0..n}

Recognized(layer) == layer.cls \in {"Conv2d", "ReLU", "MaxPool2d", "BatchNorm2d"}

\* '{}_{}'.format(kind, i)
Name(kind, n) == kind \o "_" \o ToString(n)

Prefix(layer) ==
    CASE layer.cls = "Conv2d" -> "conv"
      [] layer.cls = "ReLU" -> "relu"
      [] layer.cls = "MaxPool2d" -> "pool"
      [] layer.cls = "BatchNorm2d" -> "bn"

\* i after the isinstance chain has looked at the layer
NextI(layer, n) == IF layer.cls = "Conv2d" THEN n + 1 ELSE n

\* the module registered for the layer at index p of cnn: a ReLU is rebuilt
\* as nn.ReLU(inplace=False), every other layer is registered as it is
Mod(layer, p) ==
    IF layer.cls = "ReLU"
    THEN [cls |-> "ReLU", param |-> 0, src |-> p]
    ELSE [cls |-> layer.cls, param |-> layer.param, src |-> p]

Normalization == [cls |-> "Normalization", param |-> 0, src |-> 0]

TapMod(cls, id) == [cls |-> cls, param |-> 0, src |-> id]

IsTap(mod) == mod.cls \in {"ContentLoss", "StyleLoss"}

\* cnn = vgg19(pretrained=True).features.to(device).eval(): the weights are
\* never given requires_grad_(False)
WeightsFrozen == FALSE

HasWeights(mod) == mod.cls \in {"Conv2d", "BatchNorm2d"} /\ ~WeightsFrozen

----------------------------------------------------------------------------
(* nn.Sequential *)

Names(m) == {m[j].name : j \in 1..Len(m)}

\* model.add_module(name, mod): self._modules[name] = mod.  A new name is
\* appended; an existing name keeps its position and gets the new module.
AddModule(m, name, mod) ==
    IF name \in Names(m)
    THEN [j \in 1..Len(m) |-> IF m[j].name = name THEN [name |-> name, mod |-> mod] ELSE m[j]]
    ELSE Append(m, [name |-> name, mod |-> mod])

----------------------------------------------------------------------------
(* Tensors: feature maps and losses *)

Tensor(img, rg) == [img |-> img, path |-> <<>>, rg |-> rg, params |-> {}]

\* the layer's forward: the output depends on the layer's weights too
Apply(mod, x) ==
    [img |-> x.img,
     path |-> Append(x.path, <<mod.cls, mod.param>>),
     rg |-> x.rg \/ HasWeights(mod),
     params |-> x.params \cup (IF HasWeights(mod) THEN {mod.src} ELSE {})]

Detach(x) == [x EXCEPT !.rg = FALSE, !.params = {}]

gram_matrix(x) == [x EXCEPT !.path = Append(x.path, <<"gram", 0>>)]

SameValue(a, b) == a.img = b.img /\ a.path = b.path

\* F.mse_loss(a, b)
mse_loss(a, b) ==
    [val |-> IF SameValue(a, b) THEN 0 ELSE 1,
     rg |-> a.rg \/ b.rg,
     params |-> a.params \cup b.params]

NoLoss == [val |-> 0, rg |-> FALSE, params |-> {}]

\* ContentLoss(target)
NewContentLoss(target) ==
    [cls |-> "ContentLoss", target |-> Detach(target), loss |-> NoLoss, lstate |-> "unset"]

\* StyleLoss(target_feature)
NewStyleLoss(target_feature) ==
    [cls |-> "StyleLoss", target |-> Detach(gram_matrix(target_feature)),
     loss |-> NoLoss, lstate |-> "unset"]

\* ContentLoss.forward / StyleLoss.forward: store the loss; the input is
\* returned unchanged by Forward below
TapForward(tap, x) ==
    [tap EXCEPT !.loss = IF tap.cls = "ContentLoss"
                         THEN mse_loss(x, tap.target)
                         ELSE mse_loss(gram_matrix(x), tap.target),
                !.lstate = "set"]

\* model(x) from module j on: the output and the taps after the evaluation
RECURSIVE ForwardFrom(_, _, _, _)
ForwardFrom(m, j, x, tp) ==
    IF j > Len(m) THEN [out |-> x, taps |-> tp]
    ELSE LET mod == m[j].mod IN
         IF IsTap(mod)
         THEN ForwardFrom(m, j + 1, x, [tp EXCEPT ![mod.src] = TapForward(tp[mod.src], x)])
         ELSE ForwardFrom(m, j + 1, Apply(mod, x), tp)

Forward(m, x, tp) == ForwardFrom(m, 1, x, tp)


----------------------------------------------------------------------------
(* get_style_model_and_losses *)

\* one pass of the body of "for layer in cnn.children()" for a recognized
\* layer: name it, register it, and insert the taps its name asks for
WalkLayer ==
    /\ pc = "walk"
    /\ pos <= Len(cnn)
    /\ Recognized(cnn[pos])
    /\ LET layer == cnn[pos]
           n == NextI(layer, i)
           name == Name(Prefix(layer), n)
           m1 == AddModule(model, name, Mod(layer, pos))
           c == name \in content_layers
           r1 == Forward(m1, Tensor(content_img, FALSE), taps)
           tp1 == IF c THEN Append(r1.taps, NewContentLoss(r1.out)) ELSE taps
           m2 == IF c
                 THEN AddModule(m1, Name("content_loss", n), TapMod("ContentLoss", Len(tp1)))
                 ELSE m1
           s == name \in style_layers
           r2 == Forward(m2, Tensor(style_img, FALSE), tp1)
           tp2 == IF s THEN Append(r2.taps, NewStyleLoss(r2.out)) ELSE tp1
           m3 == IF s
                 THEN AddModule(m2, Name("style_loss", n), TapMod("StyleLoss", Len(tp2)))
                 ELSE m2
       IN /\ i' = n
          /\ model' = m3
          /\ taps' = tp2
          /\ content_losses' = IF c THEN Append(content_losses, Len(tp1)) ELSE content_losses
          /\ style_losses' = IF s THEN Append(style_losses, Len(tp2)) ELSE style_losses
          /\ nfwd' = nfwd + (IF c THEN 1 ELSE 0) + (IF s THEN 1 ELSE 0)
          /\ tap_at' = tap_at \o (IF c THEN <<pos>> ELSE <<>>) \o (IF s THEN <<pos>> ELSE <<>>)
    /\ pos' = pos + 1
    /\ UNCHANGED <<inputs, input_img, input_rg, input_grad, wgrad, run, evals, pc, err,
                   fed, dirty, headers, reports, clamp_acted>>

\* the else branch of the isinstance chain, skipping the layer instead of raising
SkipUnrecognized ==
    /\ pc = "walk"
    /\ pos <= Len(cnn)
    /\ ~Recognized(cnn[pos])
    /\ pos' = pos + 1
    /\ UNCHANGED <<inputs, model, i, taps, content_losses, style_losses, input_img,
                   input_rg, input_grad, wgrad, run, evals, pc, err, nfwd, fed, dirty,
                   headers, reports, tap_at, clamp_acted>>

\* the else branch of the isinstance chain
RaiseUnrecognized ==
    /\ pc = "walk"
    /\ pos <= Len(cnn)
    /\ ~Recognized(cnn[pos])
    /\ pc' = "error"
    /\ err' = "RuntimeError: Unrecognized layer"
    /\ UNCHANGED <<inputs, model, i, pos, taps, content_losses, style_losses, input_img,
                   input_rg, input_grad, wgrad, run, evals, nfwd, fed, dirty, headers,
                   reports, tap_at, clamp_acted>>

\* for i in range(len(model) - 1, -1, -1): if tap: break
\* (1-based: the result is i + 1, the number of modules model[:(i + 1)] keeps)
RECURSIVE TrimScan(_, _)
TrimScan(m, j) ==
    IF IsTap(m[j].mod) THEN j
    ELSE IF j = 1 THEN 1
    ELSE TrimScan(m, j - 1)

Trimmed(m) == SubSeq(m, 1, TrimScan(m, Len(m)))

\* the walk is over: trim, return to run_style_transfer, build the optimizer
\* (input_img.requires_grad_(True)), run = [0]
TrimAndReturn ==
    /\ pc = "walk"
    /\ pos > Len(cnn)
    /\ model' = Trimmed(model)
    /\ input_rg' = TRUE
    /\ run' = 0
    /\ pc' = "loop"
    /\ UNCHANGED <<inputs, i, pos, taps, content_losses, style_losses, input_img,
                   input_grad, wgrad, evals, err, nfwd, fed, dirty, headers, reports, tap_at, clamp_acted>>

----------------------------------------------------------------------------
(* run_style_transfer *)

\* clamp_(0, 1) with the bounds mistaken: only the upper bound applied
ClampMaxOnly(v) == IF v > 1 THEN 1 ELSE v

\* clamp_(0, 1) with the bounds mistaken: only the lower bound applied
ClampMinOnly(v) == IF v < 0 THEN 0 ELSE v

\* clamp_(0, 1)
Clamp(v) == IF v < 0 THEN 0 ELSE IF v > 1 THEN 1 ELSE v

Ids(list) == {list[j] : j \in 1..Len(list)}

Listed == Ids(content_losses) \cup Ids(style_losses)

\* what loss.backward() and the report do, given the taps after model(input_img):
\*  - with no tap in either list the scores are 0 * style_weight and
\*    0 * content_weight, plain numbers, and loss.backward() does not exist;
\*  - a listed tap that is no longer in the model keeps the loss of an earlier
\*    evaluation; a second backward through that graph is refused;
\*  - the report calls .item() on both scores, a plain number has none.
\* (a tap without a stored loss, and a sum that needs no gradient, would fail
\* too; neither arises.  A refused backward is taken to accumulate nothing.)
Outcome(tp) ==
    IF \E id \in Listed : tp[id].lstate = "unset" THEN "AttributeError: loss"
    ELSE IF Listed = {} THEN "AttributeError: backward"
    ELSE IF \E id \in Listed : tp[id].loss.rg /\ tp[id].lstate = "freed"
    THEN "RuntimeError: backward through the graph a second time"
    ELSE IF \A id \in Listed : ~tp[id].loss.rg
    THEN "RuntimeError: does not require grad"
    ELSE IF (run + 1) % ReportEvery = 0 /\ (content_losses = <<>> \/ style_losses = <<>>)
    THEN "AttributeError: item"
    ELSE "ok"

BackwardRan(o) == o \in {"ok", "AttributeError: item"}

\* weights that receive a gradient from loss.backward()
GradTargets(tp) == UNION {tp[id].loss.params : id \in {x \in Listed : tp[x].loss.rg}}

\* the graphs of the summed losses are freed by backward
AfterBackward(tp) ==
    [id \in 1..Len(tp) |->
        IF id \in Listed /\ tp[id].loss.rg THEN [tp[id] EXCEPT !.lstate = "freed"] ELSE tp[id]]

\* while run[0] <= num_steps: optimizer.step(closure) is entered
EnterStep ==
    /\ pc = "loop"
    /\ run <= num_steps
    /\ pc' = "closure"
    /\ evals' = 0
    /\ UNCHANGED <<inputs, model, i, pos, taps, content_losses, style_losses, input_img,
                   input_rg, input_grad, wgrad, run, err, nfwd, fed, dirty, headers, reports, tap_at, clamp_acted>>

\* closure(): clamp, zero_grad, forward, scores, backward, count, report
Closure ==
    /\ pc = "closure"
    /\ LET x == Clamp(input_img)
           r == Forward(model, Tensor(x, input_rg), taps)
           o == Outcome(r.taps)
           ran == BackwardRan(o)
           rep == (run + 1) % ReportEvery = 0
       IN /\ input_img' = x
          /\ dirty' = FALSE
          /\ clamp_acted' = (x # input_img)
          /\ fed' = <<x>>
          /\ taps' = IF ran THEN AfterBackward(r.taps) ELSE r.taps
          /\ input_grad' = IF ran /\ input_rg THEN 1 ELSE 0
          /\ wgrad' = IF ran
                      THEN [p \in DOMAIN wgrad |->
                               IF p \in GradTargets(r.taps) THEN wgrad[p] + 1 ELSE wgrad[p]]
                      ELSE wgrad
          /\ run' = IF ran THEN run + 1 ELSE run
          /\ headers' = IF ran /\ rep THEN headers \cup {run + 1} ELSE headers
          /\ reports' = IF o = "ok" /\ rep THEN reports \cup {run + 1} ELSE reports
          /\ evals' = IF o = "ok" THEN evals + 1 ELSE evals
          /\ pc' = IF o = "ok" THEN "opt" ELSE "error"
          /\ err' = IF o = "ok" THEN err ELSE o
    /\ UNCHANGED <<inputs, model, i, pos, content_losses, style_losses, input_rg, nfwd, tap_at>>

\* the optimizer applies a pixel update to its only parameter
Update ==
    /\ pc = "opt"
    /\ \E v \in PixelValues : input_img' = v
    /\ dirty' = TRUE
    /\ pc' = "updated"
    /\ UNCHANGED <<inputs, model, i, pos, taps, content_losses, style_losses, input_rg,
                   input_grad, wgrad, run, evals, err, nfwd, fed, headers, reports, tap_at, clamp_acted>>

\* the optimizer calls the closure again at the updated point
Reevaluate ==
    /\ pc = "updated"
    /\ evals < max_eval
    /\ pc' = "closure"
    /\ UNCHANGED <<inputs, model, i, pos, taps, content_losses, style_losses, input_img,
                   input_rg, input_grad, wgrad, run, evals, err, nfwd, fed, dirty, headers,
                   reports, tap_at, clamp_acted>>

\* optimizer.step(closure) returns
StepReturn ==
    /\ pc \in {"opt", "updated"}
    /\ pc' = "loop"
    /\ UNCHANGED <<inputs, model, i, pos, taps, content_losses, style_losses, input_img,
                   input_rg, input_grad, wgrad, run, evals, err, nfwd, fed, dirty, headers,
                   reports, tap_at, clamp_acted>>

\* the loop is left: final clamp, return input_img
Finish ==
    /\ pc = "loop"
    /\ run > num_steps
    /\ input_img' = Clamp(input_img)
    /\ dirty' = FALSE
    /\ clamp_acted' = (Clamp(input_img) # input_img)
    /\ pc' = "done"
    /\ UNCHANGED <<inputs, model, i, pos, taps, content_losses, style_losses, input_rg,
                   input_grad, wgrad, run, evals, err, nfwd, fed, headers, reports, tap_at>>

----------------------------------------------------------------------------
(* Specifications *)

TapNames == {"conv_1", "pool_1"}

StepBudgets == (0..MaxSmallBudget) \cup {ReportEvery - 1, ReportEvery}

\* style_transfer(): input_img = content_img.clone(); then the state at the
\* head of the walk of get_style_model_and_losses
Start ==
    /\ model = <<[name |-> "0", mod |-> Normalization]>>
    /\ i = 0
    /\ pos = 1
    /\ taps = <<>>
    /\ tap_at = <<>>
    /\ content_losses = <<>>
    /\ style_losses = <<>>
    /\ input_img = content_img
    /\ input_rg = FALSE
    /\ input_grad = 0
    /\ wgrad = [p \in 1..Len(cnn) |-> 0]
    /\ run = 0
    /\ evals = 0
    /\ pc = "walk"
    /\ err = ""
    /\ nfwd = 0
    /\ fed = <<>>
    /\ dirty = FALSE
    /\ clamp_acted = FALSE
    /\ headers = {}
    /\ reports = {}

Conv == [cls |-> "Conv2d", param |-> 1]
ReLU == [cls |-> "ReLU", param |-> 1]
Pool(p) == [cls |-> "MaxPool2d", param |-> p]
Dropout == [cls |-> "Dropout", param |-> 1]

RunExtractors == {<<Conv, ReLU>>, <<Conv, Pool(1), Pool(2)>>, <<Conv, Dropout>>}

\* every extractor, tap configuration and image pair, with the shortest step
\* budget and an optimizer that evaluates once per step
InitWide ==
    /\ cnn \in LayerSeqs(MaxLayers)
    /\ content_layers \in SUBSET TapNames
    /\ style_layers \in SUBSET TapNames
    /\ content_img \in ValidPixels
    /\ style_img \in ValidPixels
    /\ num_steps = 0
    /\ max_eval = 1

\* a few extractors, with every step budget and optimizer
InitDeep ==
    /\ cnn \in RunExtractors
    /\ content_layers \in SUBSET {"conv_1"}
    /\ style_layers \in SUBSET TapNames
    /\ content_img = 1
    /\ style_img = 0
    /\ num_steps \in StepBudgets
    /\ max_eval \in 1..MaxEval

Init == (InitWide \/ InitDeep) /\ Start

Next ==
    \/ WalkLayer
    \/ RaiseUnrecognized
    \/ TrimAndReturn
    \/ EnterStep
    \/ Closure
    \/ Update
    \/ Reevaluate
    \/ StepReturn
    \/ Finish

Spec == Init /\ [][Next]_vars

----------------------------------------------------------------------------
(* Vocabulary of the properties *)

OtherKind(layer) == layer.cls \notin {"Conv2d", "ReLU", "MaxPool2d", "BatchNorm2d"}

HasOtherKind == \E p \in 1..Len(cnn) : OtherKind(cnn[p])

FirstOther == CHOOSE p \in 1..Len(cnn) :
                  OtherKind(cnn[p]) /\ \A q \in 1..(p - 1) : ~OtherKind(cnn[q])

ConvsUpTo(p) == Cardinality({q \in 1..p : cnn[q].cls = "Conv2d"})

\* the name {kind}_{index} of the layer at index p of cnn
NameAt(p) == Name(Prefix(cnn[p]), ConvsUpTo(p))

\* taps asked for by the layers 1..k
TapHits(k) ==
    Cardinality({q \in 1..k : NameAt(q) \in content_layers})
        + Cardinality({q \in 1..k : NameAt(q) \in style_layers})

Assembled == pc \in {"loop", "closure", "opt", "updated", "done"}

InModel(id) == \E j \in 1..Len(model) : model[j].mod = TapMod(taps[id].cls, id)

IsLayerEntry(e) == ~IsTap(e.mod) /\ e.mod.cls # "Normalization"

\* the first closure has just evaluated the model (no optimizer update yet)
FirstEvaluationDone ==
    /\ fed # <<>>
    /\ \/ pc = "error" /\ run = 0
       \/ pc = "opt" /\ run = 1

----------------------------------------------------------------------------
(* C1 *)

\* C1 as stated: when the unrecognized-layer error is raised, no forward
\* evaluation of the model-so-far has occurred.
C1_NoForwardBeforeError ==
    err = "RuntimeError: Unrecognized layer" => nfwd = 0

\* C1, amended: an extractor with a layer of another kind never gets past the
\* walk; the error is raised at the first such layer, without any evaluation
\* on the Working Image and without any optimization step, after exactly one
\* evaluation of the model-so-far per tap asked for by the layers before it.
C1_UnrecognizedAborts ==
    HasOtherKind =>
        /\ pc \in {"walk", "error"}
        /\ pos <= FirstOther
        /\ fed = <<>> /\ run = 0 /\ input_img = content_img
        /\ pc = "error" =>
              /\ err = "RuntimeError: Unrecognized layer"
              /\ pos = FirstOther
              /\ nfwd = TapHits(FirstOther - 1)
              /\ Len(taps) = nfwd

C1_Witness ==
    /\ pc = "error"
    /\ err = "RuntimeError: Unrecognized layer"
    /\ nfwd > 0

----------------------------------------------------------------------------
(* C2 *)

\* C2: when at least one tap was inserted, the returned model ends with the
\* last inserted tap, contains every tap of content_losses and style_losses,
\* and contains no layer walked after the last inserted tap.
C2_TruncatedAfterLastTap ==
    (Assembled /\ taps # <<>>) =>
        /\ model[Len(model)].mod = TapMod(taps[Len(taps)].cls, Len(taps))
        /\ \A id \in Listed : InModel(id)
        /\ \A j \in 1..Len(model) :
              IsLayerEntry(model[j]) => model[j].mod.src <= tap_at[Len(taps)]

----------------------------------------------------------------------------
(* C3 *)

\* C3: when no tap is inserted, assembly ends in an error; no model is
\* returned and nothing is evaluated or optimized.
C3_NoTapsIsFatal ==
    (pc # "walk" /\ taps = <<>>) => (pc = "error" /\ fed = <<>> /\ run = 0)

----------------------------------------------------------------------------
(* C4 *)

\* C4: every forward evaluation of the model on the Working Image is fed
\* pixel values in [0,1], and the returned image has pixel values in [0,1].
C4_EvaluatedInRange ==
    /\ \A k \in 1..Len(fed) : fed[k] \in ValidPixels
    /\ pc = "done" => input_img \in ValidPixels

\* an evaluation whose clamp had to bring the pixel back into range
C4_Witness ==
    /\ pc = "opt"
    /\ clamp_acted
    /\ fed = <<input_img>>
    /\ run > 1

----------------------------------------------------------------------------
(* C5 *)

\* C5 as stated: right after optimizer.step(closure) returns inside the loop
\* the Working Image is in [0,1].
C5_ClampedAfterStep ==
    (pc = "loop" /\ run > 0) => input_img \in ValidPixels

\* C5, amended: the Working Image is clamped at the start of every closure
\* evaluation and once after the loop.  Right after optimizer.step returns it
\* is in [0,1] unless the optimizer applied an update after its last closure
\* evaluation; it is in [0,1] after every closure evaluation and at return.
C5_ClampedAtEvaluation ==
    /\ (pc = "loop" /\ ~dirty) => input_img \in ValidPixels
    /\ pc \in {"opt", "done"} => input_img \in ValidPixels

\* a step has returned right after a closure whose clamp acted
C5_Witness ==
    /\ pc = "loop"
    /\ run > 0
    /\ ~dirty
    /\ clamp_acted

----------------------------------------------------------------------------
(* C6 *)

\* C6: the loop has no exit other than the return: a run that entered the
\* loop does not end in an exception, and a run that returned has made at
\* least num_steps + 1 closure evaluations.
C6_OnlyExitIsReturn ==
    /\ pc = "error" => err = "RuntimeError: Unrecognized layer"
    /\ pc = "done" => run >= num_steps + 1

----------------------------------------------------------------------------
(* C7 *)

\* C7: no step accumulates a gradient on a feature-extractor weight, or
\* changes the content image, the style image or a tap's captured target.
C7_OnlyWorkingImage ==
    [][/\ wgrad' = wgrad
       /\ content_img' = content_img
       /\ style_img' = style_img
       /\ \A id \in 1..Len(taps) : taps'[id].target = taps[id].target]_vars

----------------------------------------------------------------------------
(* C8 *)

\* C8: with identical content and style images, the stored loss of every
\* tap is zero after the first forward evaluation of the assembled model.
C8_ZeroLossOnIdenticalImages ==
    (content_img = style_img /\ FirstEvaluationDone) =>
        \A id \in Listed : taps[id].loss.val = 0

----------------------------------------------------------------------------
(* C9 *)

\* C9: the layers of the assembled model are exactly the layers walked up to
\* the last tap, once each, in the original order, each under its name
\* {kind}_{index}.
C9_EveryLayerOnce ==
    (Assembled /\ taps # <<>>) =>
        SelectSeq(model, IsLayerEntry)
            = [p \in 1..tap_at[Len(taps)] |-> [name |-> NameAt(p), mod |-> Mod(cnn[p], p)]]

----------------------------------------------------------------------------
(* C10 *)

\* C10: every optimizer step starts with the counter <= num_steps, the
\* counter at return is in num_steps + 1 .. num_steps + max_eval, and a loss
\* report has been emitted for exactly the positive multiples of 50 the
\* counter has reached.
C10_CounterAndReports ==
    /\ (pc = "closure" /\ evals = 0) => run <= num_steps
    /\ pc = "done" => (num_steps < run /\ run <= num_steps + max_eval)
    /\ reports = {n \in 1..run : n % ReportEvery = 0}

=============================================================================
